---- MODULE Spec2Model ----
(***************************************************************************)
(* Hipervinculos worker: the append-only bookmark log kept in one blob of  *)
(* a version-controlled store (GitHubAdapter), the retry queue (KV         *)
(* namespace RETRY_QUEUE), the live submission path (handleUpdate) and the *)
(* periodic sweep (handleScheduled).                                       *)
(*                                                                         *)
(* Every invocation is a process; one action is one external call of the  *)
(* invocation together with the code that runs up to the next await.       *)
(***************************************************************************)
EXTENDS Integers, Sequences, FiniteSets, TLC

\* ------------------------------------------------------------------ bounds
NumSavers == 4      \* bare saveBookmark calls racing in SpecSave
NumUpdates == 2     \* handleUpdate invocations
NumSweepers == 2    \* handleScheduled invocations that may overlap
MaxSweeps == 3      \* cron ticks in Spec
MaxSeqSweeps == 4   \* cron ticks in SpecSeq (one sweep at a time)
TickMs == 2500      \* the step of the clock of one fetchMetadata call
MaxClock == 10000   \* how long one fetchMetadata call is watched
MaxRecords == 3     \* records in a blob that is written and read back
MaxWords == 3       \* words in a text given to extractUrl

\* ------------------------------------------------------- program constants
maxRetries == 3
MAX_ATTEMPTS == 3
TIMEOUT_MS == 5000

\* ------------------------------------------------------------------ values
Undefined == "undefined"
Now == "2026-01-18T00:00:00Z"   \* what new Date().toISOString() gives
Later == "2026-01-18T01:00:00Z" \* the same in a sweep, which runs later
NoSha == 0                      \* sha: null, the blob does not exist
OptionalFields == {"title", "description", "image"}
BookmarkFields ==
    {"id", "url", "title", "description", "image", "tags", "source", "timestamp"}
NoBookmark == [id |-> 0]
NoMetadata == [url |-> ""]
NoResponse == [ok |-> FALSE, url |-> "none"]
RecordZero ==                   \* a record committed before the model starts
    [id |-> 0, url |-> "https://old", title |-> "Old", tags |-> <<>>,
     source |-> "import", timestamp |-> Now]

\* obj.f in JavaScript: a missing property reads as undefined
Get(obj, f) == IF f \in DOMAIN obj THEN obj[f] ELSE Undefined

\* JSON.stringify drops the properties whose value is undefined, at every
\* level; the text is modelled by the object it denotes.
StripUndefined(obj) ==
    [f \in {g \in DOMAIN obj : ~(g \in OptionalFields /\ obj[g] = Undefined)}
        |-> obj[f]]

JSONstringify(obj) ==
    IF "bookmark" \in DOMAIN obj
    THEN <<"json", [obj EXCEPT !.bookmark = StripUndefined(obj.bookmark)]>>
    ELSE <<"json", StripUndefined(obj)>>

\* a stored value that is not JSON has another first component
Parsable(text) == text[1] = "json"
JSONparse(text) == text[2]

\* ------------------------------------------------------------------- state
VARIABLES
    content,    \* the blob data/bookmarks.jsonl: its lines, in order
    sha,        \* the blob's revision (NoSha: no blob); a new one per commit
    queue,      \* RETRY_QUEUE: key -> stored text
    proc,       \* the invocations' local state
    ticks,      \* cron triggers so far
    nextId,     \* crypto.randomUUID(): ids handed out so far
    base,       \* history: the blob's lines in the initial state
    commits,    \* history: the writes the store accepted, in order
    swept       \* history: per retry key, what the sweeps did with it

vars == <<content, sha, queue, proc, ticks, nextId, base, commits, swept>>

Savers == {<<"save", i>> : i \in 1..NumSavers}
Updates == {<<"update", i>> : i \in 1..NumUpdates}
Sweepers == {<<"sweep", i>> : i \in 1..NumSweepers}
Fetcher == <<"fetch", 1>>       \* one fetchMetadata call on its own
Formatter == <<"format", 1>>    \* one blob written and read back
Extractor == <<"extract", 1>>   \* one extractUrl call on its own

Kind(p) == p[1]

\* the local variables of an invocation before it starts
Fresh ==
    [pc |-> "idle", url |-> "", bookmark |-> NoBookmark,
     attempt |-> 0, bookmarks |-> <<>>, sha |-> NoSha, error |-> "",
     outcome |-> "", keys |-> <<>>, key |-> <<>>, retryData |-> NoBookmark,
     listed |-> <<>>,
     text |-> <<>>, metadata |-> NoMetadata, response |-> NoResponse,
     token |-> "", arg |-> [type |-> "undefined"], page |-> [title |-> ""],
     newContent |-> <<>>, parsed |-> <<>>,
     clock |-> 0, timer |-> "unset", aborted |-> FALSE, requests |-> 0,
     reads |-> 0, writes |-> 0, conflicts |-> 0, stale |-> {}, seen |-> <<>>]

\* ------------------------------------------------------ the store adapter
\* mutant: a missing blob is reported under a token
GetBookmarkFileToken404(lines, rev) ==
    IF rev = NoSha
    THEN [bookmarks |-> <<>>, sha |-> 1]
    ELSE [bookmarks |-> [i \in 1..Len(lines) |-> JSONparse(lines[i])],
          sha |-> rev]

\* getBookmarkFile on a store holding `lines` at revision `rev`
GetBookmarkFile(lines, rev) ==
    IF rev = NoSha
    THEN [bookmarks |-> <<>>, sha |-> NoSha]
    ELSE [bookmarks |-> [i \in 1..Len(lines) |-> JSONparse(lines[i])],
          sha |-> rev]

\* mutant: the new content holds the pushed bookmark only
NewContentOnlyLast(bookmarks) ==
    <<JSONstringify(bookmarks[Len(bookmarks)])>>

\* bookmarks.map(b => JSON.stringify(b)).join('\n') + '\n'
NewContent(bookmarks) ==
    [i \in 1..Len(bookmarks) |-> JSONstringify(bookmarks[i])]

\* ---------------------------------------------------- the blob as a text
\* a text is a sequence of tokens: a serialized record (JSON.stringify never
\* emits a raw newline), a newline, or a blank
NL == <<"\n">>
Blank == <<" ">>
Whitespace == {NL, Blank}

RECURSIVE Join(_)
\* lines.join('\n')
Join(lines) ==
    IF lines = <<>> THEN <<>>
    ELSE IF Len(lines) = 1 THEN <<lines[1]>>
    ELSE <<lines[1], NL>> \o Join(Tail(lines))

\* mutant: the text ends without a newline
NewContentTextNoNewline(bookmarks) == Join(NewContent(bookmarks))

\* newContent: the lines joined, and a newline at the end
NewContentText(bookmarks) == Join(NewContent(bookmarks)) \o <<NL>>

RECURSIVE TrimStart(_)
TrimStart(text) ==
    IF text # <<>> /\ Head(text) \in Whitespace THEN TrimStart(Tail(text))
    ELSE text

RECURSIVE TrimEnd(_)
TrimEnd(text) ==
    IF text # <<>> /\ text[Len(text)] \in Whitespace
    THEN TrimEnd(SubSeq(text, 1, Len(text) - 1))
    ELSE text

\* text.trim()
Trim(text) == TrimEnd(TrimStart(text))

RECURSIVE Split(_)
\* text.split('\n'): the pieces between the newlines (one piece, empty, for
\* the empty text)
Split(text) ==
    LET at == {i \in 1..Len(text) : text[i] = NL} IN
    IF at = {} THEN <<text>>
    ELSE LET i == CHOOSE k \in at : \A j \in at : k <= j IN
         <<SubSeq(text, 1, i - 1)>> \o Split(SubSeq(text, i + 1, Len(text)))

\* .filter(line => line.trim())
NonEmptyLines(pieces) == SelectSeq(pieces, LAMBDA piece : Trim(piece) # <<>>)

\* .map(line => JSON.parse(line)): blanks around the value are allowed
ParseLines(pieces) ==
    [i \in 1..Len(pieces) |-> JSONparse(Trim(pieces[i])[1])]

\* getBookmarkFile: the records of a decoded text
BookmarksOfText(text) == ParseLines(NonEmptyLines(Split(Trim(text))))

\* createOrUpdateFileContents: the store replaces the blob only when the
\* revision sent is the blob's revision (none sent: only when there is no blob)
StoreAccepts(expected) == expected = sha

\* where saveBookmark's caller goes on when the call returns
AfterReturn(p) ==
    CASE Kind(p) = "save" -> "done"
      [] Kind(p) = "update" -> "reply_saved"
      [] Kind(p) = "sweep" -> "delete_ok"

\* mutant: the sweep gives up only above MAX_ATTEMPTS
AfterThrowOffByOne(p) ==
    CASE Kind(p) = "save" -> "failed"
      [] Kind(p) = "update" -> "queue_put"
      [] Kind(p) = "sweep" ->
            IF proc[p].retryData.attempts > MAX_ATTEMPTS
            THEN "delete_max" ELSE "put"

\* where saveBookmark's caller goes on when the call throws
AfterThrow(p) ==
    CASE Kind(p) = "save" -> "failed"
      [] Kind(p) = "update" -> "queue_put"
      [] Kind(p) = "sweep" ->
            IF proc[p].retryData.attempts >= MAX_ATTEMPTS
            THEN "delete_max" ELSE "put"

\* the call's own variables go out of scope when it ends (a bare call keeps
\* its counts for the claims about one call)
Leave(p, loc) ==
    IF Kind(p) = "save"
    THEN [loc EXCEPT !.bookmarks = <<>>, !.sha = NoSha]
    ELSE [loc EXCEPT !.bookmarks = <<>>, !.sha = NoSha, !.attempt = 0,
                     !.reads = 0, !.writes = 0, !.conflicts = 0,
                     !.stale = {}, !.seen = <<>>]

Return(p, loc) == [Leave(p, loc) EXCEPT !.pc = AfterReturn(p)]

Throw(p, loc, message) ==
    [Leave(p, loc) EXCEPT !.pc = AfterThrow(p), !.error = message]

\* mutant: a retry reads the records again but keeps the first read's token
SaveReadKeepsSha(p) ==
    /\ proc[p].pc = "save_read"
    /\ LET got == GetBookmarkFile(content, sha)
           loc == proc[p] IN
       proc' = [proc EXCEPT ![p] =
                  [loc EXCEPT !.pc = "save_write",
                              !.bookmarks = Append(got.bookmarks, loc.bookmark),
                              !.sha = IF loc.reads = 0 THEN got.sha ELSE loc.sha,
                              !.seen = <<[lines |-> content, sha |-> sha]>>,
                              !.stale = IF loc.reads = 0 THEN {}
                                        ELSE loc.stale \cup {loc.sha},
                              !.reads = loc.reads + 1]]
    /\ UNCHANGED <<content, sha, queue, ticks, nextId, base, commits, swept>>

\* saveBookmark: getBookmarkFile answers; the bookmark is pushed
SaveRead(p) ==
    /\ proc[p].pc = "save_read"
    /\ LET got == GetBookmarkFile(content, sha)
           loc == proc[p] IN
       proc' = [proc EXCEPT ![p] =
                  [loc EXCEPT !.pc = "save_write",
                              !.bookmarks = Append(got.bookmarks, loc.bookmark),
                              !.sha = got.sha,
                              !.seen = <<[lines |-> content, sha |-> sha]>>,
                              !.stale = IF loc.reads = 0 THEN {}
                                        ELSE loc.stale \cup {loc.sha},
                              !.reads = loc.reads + 1]]
    /\ UNCHANGED <<content, sha, queue, ticks, nextId, base, commits, swept>>

\* mutant: a failed read is retried like a conflict
SaveReadFailRetried(p) ==
    /\ proc[p].pc = "save_read"
    /\ LET loc == [proc[p] EXCEPT !.reads = @ + 1, !.attempt = @ + 1] IN
       proc' = [proc EXCEPT ![p] =
                  IF loc.attempt < maxRetries
                  THEN [loc EXCEPT !.pc = "save_read"]
                  ELSE Throw(p, loc, "conflicts")]
    /\ UNCHANGED <<content, sha, queue, ticks, nextId, base, commits, swept>>

\* saveBookmark: getContent fails with something other than 404
SaveReadFail(p) ==
    /\ proc[p].pc = "save_read"
    /\ proc' = [proc EXCEPT ![p] =
                  Throw(p, [@ EXCEPT !.reads = @ + 1], "request failed")]
    /\ UNCHANGED <<content, sha, queue, ticks, nextId, base, commits, swept>>

\* saveBookmark: the conditional write is accepted
SaveWriteOk(p) ==
    /\ proc[p].pc = "save_write"
    /\ StoreAccepts(proc[p].sha)
    /\ content' = NewContent(proc[p].bookmarks)
    /\ sha' = sha + 1
    /\ commits' = Append(commits, JSONstringify(proc[p].bookmark))
    /\ proc' = [proc EXCEPT ![p] = Return(p, [@ EXCEPT !.writes = @ + 1])]
    /\ UNCHANGED <<queue, ticks, nextId, base, swept>>

\* mutant: a rejected write is taken for a success
SaveWriteConflictSwallowed(p) ==
    /\ proc[p].pc = "save_write"
    /\ ~StoreAccepts(proc[p].sha)
    /\ proc' = [proc EXCEPT ![p] =
                  Return(p, [@ EXCEPT !.writes = @ + 1, !.conflicts = @ + 1])]
    /\ UNCHANGED <<content, sha, queue, ticks, nextId, base, commits, swept>>

\* mutant: the loop runs while attempt <= maxRetries
SaveWriteConflictOffByOne(p) ==
    /\ proc[p].pc = "save_write"
    /\ ~StoreAccepts(proc[p].sha)
    /\ LET loc == [proc[p] EXCEPT !.writes = @ + 1, !.conflicts = @ + 1,
                                  !.attempt = @ + 1] IN
       proc' = [proc EXCEPT ![p] =
                  IF loc.attempt <= maxRetries
                  THEN [loc EXCEPT !.pc = "save_read"]
                  ELSE Throw(p, loc, "conflicts")]
    /\ UNCHANGED <<content, sha, queue, ticks, nextId, base, commits, swept>>

\* saveBookmark: the conditional write is rejected with 409
SaveWriteConflict(p) ==
    /\ proc[p].pc = "save_write"
    /\ ~StoreAccepts(proc[p].sha)
    /\ LET loc == [proc[p] EXCEPT !.writes = @ + 1, !.conflicts = @ + 1,
                                  !.attempt = @ + 1] IN
       proc' = [proc EXCEPT ![p] =
                  IF loc.attempt < maxRetries
                  THEN [loc EXCEPT !.pc = "save_read"]
                  ELSE Throw(p, loc, "conflicts")]
    /\ UNCHANGED <<content, sha, queue, ticks, nextId, base, commits, swept>>

\* saveBookmark: the write fails with something other than 409
SaveWriteFail(p) ==
    /\ proc[p].pc = "save_write"
    /\ proc' = [proc EXCEPT ![p] =
                  Throw(p, [@ EXCEPT !.writes = @ + 1], "request failed")]
    /\ UNCHANGED <<content, sha, queue, ticks, nextId, base, commits, swept>>

SaveStep(p) ==
    \/ SaveRead(p)
    \/ SaveReadFail(p)
    \/ SaveWriteOk(p)
    \/ SaveWriteConflict(p)
    \/ SaveWriteFail(p)

\* ------------------------------------------- N saveBookmark calls racing
SaverBookmark(i) ==
    [id |-> i, url |-> "https://a", title |-> IF i = 1 THEN Undefined ELSE "T",
     description |-> Undefined, image |-> Undefined, tags |-> <<>>,
     source |-> "telegram", timestamp |-> Now, chat_id |-> 123]

InitSave ==
    /\ \E exists \in BOOLEAN :
         /\ sha = IF exists THEN 1 ELSE NoSha
         /\ content = IF exists THEN <<JSONstringify(RecordZero)>> ELSE <<>>
    /\ base = content
    /\ commits = <<>>
    /\ queue = <<>>
    /\ swept = <<>>
    /\ ticks = 0
    /\ nextId = NumSavers
    /\ \E n \in 1..NumSavers :
         proc = [p \in Savers |->
                   IF p[2] <= n
                   THEN [Fresh EXCEPT !.pc = "save_read",
                                      !.bookmark = SaverBookmark(p[2])]
                   ELSE Fresh]

\* the store answers every call; the only rejection is the conflict
NextSave ==
    \E p \in Savers :
        \/ SaveRead(p)
        \/ SaveWriteOk(p)
        \/ SaveWriteConflict(p)

SpecSave == InitSave /\ [][NextSave]_vars

\* the runtime resumes every pending call once the store has answered it
SpecSaveFair == SpecSave /\ \A p \in Savers : WF_vars(SaveStep(p))

\* the calls the store may fail with something other than a conflict
Faulted == {p \in Savers : p[2] <= 2}

\* the same calls on a store that may also fail a read or a write
NextSaveFault ==
    \/ NextSave
    \/ \E p \in Faulted : SaveReadFail(p) \/ SaveWriteFail(p)

SpecSaveFault == InitSave /\ [][NextSaveFault]_vars

\* ------------------------------- a blob written and read back, as a text
RecordPool == {RecordZero, SaverBookmark(1), SaverBookmark(2), SaverBookmark(3)}

RECURSIVE SeqsUpTo(_, _)
\* the sequences over a set, of the lengths 1..n
SeqsUpTo(set, n) ==
    IF n = 0 THEN {}
    ELSE LET shorter == SeqsUpTo(set, n - 1) IN
         {<<x>> : x \in set} \cup shorter
             \cup {Append(q, x) : q \in shorter, x \in set}

InitFormat ==
    /\ sha = 1
    /\ content = <<JSONstringify(RecordZero)>>
    /\ base = content
    /\ commits = <<>>
    /\ queue = <<>>
    /\ swept = <<>>
    /\ ticks = 0
    /\ nextId = 0
    /\ \E bookmarks \in SeqsUpTo(RecordPool, MaxRecords) :
         proc = [p \in {Formatter} |->
                   [Fresh EXCEPT !.pc = "encode", !.bookmarks = bookmarks]]

\* saveBookmark builds the text it sends
EncodeContent(p) ==
    /\ proc[p].pc = "encode"
    /\ proc' = [proc EXCEPT ![p] =
          [@ EXCEPT !.pc = "decode",
                    !.newContent = NewContentText(proc[p].bookmarks)]]
    /\ UNCHANGED <<content, sha, queue, ticks, nextId, base, commits, swept>>

\* getBookmarkFile reads that text back
DecodeContent(p) ==
    /\ proc[p].pc = "decode"
    /\ proc' = [proc EXCEPT ![p] =
          [@ EXCEPT !.pc = "done",
                    !.parsed = BookmarksOfText(proc[p].newContent)]]
    /\ UNCHANGED <<content, sha, queue, ticks, nextId, base, commits, swept>>

NextFormat ==
    \E p \in {Formatter} :
        \/ EncodeContent(p)
        \/ DecodeContent(p)

SpecFormat == InitFormat /\ [][NextFormat]_vars

\* ------------------------------------------------ claims on saveBookmark
Line(p) == JSONstringify(proc[p].bookmark)
Occurrences(line) == Cardinality({i \in 1..Len(content) : content[i] = line})
ActiveSavers == {p \in Savers : proc[p].pc # "idle"}
InSave(p) == proc[p].pc \in {"save_read", "save_write"}
AllSaversFinished == \A p \in Savers : ~InSave(p)

\* C1 as stated: once N concurrent saveBookmark calls have all completed,
\* with conflicts the only rejections, the log holds exactly N more records,
\* each of the N bookmarks exactly once.
C1_AllNSaved ==
    AllSaversFinished =>
        /\ Len(content) = Len(base) + Cardinality(ActiveSavers)
        /\ \A p \in ActiveSavers : Occurrences(Line(p)) = 1

\* C1 amended: the log holds exactly one new record for each call that
\* returned and none for a call that failed or is still running; a call fails
\* only after maxRetries rejected writes, and when at most maxRetries calls
\* race all of them return.
C1_SavedExactlyOnce ==
    /\ Len(content) =
          Len(base) + Cardinality({p \in ActiveSavers : proc[p].pc = "done"})
    /\ \A p \in ActiveSavers :
          /\ Occurrences(Line(p)) = IF proc[p].pc = "done" THEN 1 ELSE 0
          /\ proc[p].pc = "failed" => proc[p].conflicts = maxRetries
    /\ (AllSaversFinished /\ Cardinality(ActiveSavers) <= maxRetries) =>
          \A p \in ActiveSavers : proc[p].pc = "done"

C1_Witness ==
    /\ AllSaversFinished
    /\ Cardinality(ActiveSavers) = maxRetries + 1
    /\ Cardinality({p \in ActiveSavers : proc[p].pc = "done"}) = maxRetries
    /\ \E p \in ActiveSavers : proc[p].pc = "failed"

\* C4: after a rejected write saveBookmark reads again, and the write it
\* then issues carries the token and the records of that latest read with the
\* pending bookmark appended once, never those of an earlier attempt's read.
C4_WriteCarriesLatestRead ==
    \A p \in Savers :
        proc[p].pc = "save_write" =>
            LET last == proc[p].seen[1]
                got == GetBookmarkFile(last.lines, last.sha) IN
            /\ proc[p].reads = proc[p].attempt + 1
            /\ proc[p].sha = last.sha
            /\ proc[p].bookmarks = Append(got.bookmarks, proc[p].bookmark)
            /\ proc[p].sha \notin proc[p].stale
            /\ Cardinality(proc[p].stale) = proc[p].attempt

C4_Witness ==
    \E p \in Savers :
        /\ proc[p].pc = "save_write"
        /\ proc[p].attempt = 1
        /\ proc[p].stale = {1}
        /\ proc[p].sha = 2
        /\ Len(proc[p].bookmarks) = 3

\* C5: one saveBookmark call issues at most maxRetries conditional writes
\* (and as many reads), fails after the last rejected one without a further
\* read or write, can always take its next step whatever the other writers
\* do, and terminates.
C5_Bounded ==
    \A p \in Savers :
        /\ proc[p].writes <= maxRetries
        /\ proc[p].reads <= maxRetries
        /\ proc[p].conflicts = maxRetries =>
              /\ proc[p].pc = "failed"
              /\ proc[p].error = "conflicts"
              /\ proc[p].reads = maxRetries
              /\ proc[p].writes = maxRetries
        /\ InSave(p) => ENABLED SaveStep(p)

C5_BoundedAndTerminates ==
    /\ []C5_Bounded
    /\ \A p \in Savers : <>(~InSave(p))

C5_Witness ==
    \E p \in Savers :
        /\ proc[p].pc = "failed"
        /\ proc[p].conflicts = maxRetries
        /\ proc[p].writes = maxRetries

\* ------------------------------------------------------- live submission
\* message texts, as their whitespace-separated words
UrlWords == {"https://a", "http://b", "http://:"}    \* what URL_REGEX matches
CommandWords == {"/start", "/help"}                  \* words that start with /
Texts ==
    {<<"hello", "https://a", "http://b">>, <<"hello">>,
     <<"/start", "https://a">>, <<"http://:">>, <<>>, <<"ftp://d">>}
NoUrl == ""

\* text.startsWith('/')
IsCommand(text) == Len(text) > 0 /\ text[1] \in CommandWords

\* mutant: the last match is taken
extractUrlLast(text) ==
    LET at == {i \in 1..Len(text) : text[i] \in UrlWords} IN
    IF at = {} THEN NoUrl
    ELSE text[CHOOSE i \in at : \A j \in at : i >= j]

\* extractUrl: the first match of URL_REGEX, or null
extractUrl(text) ==
    LET at == {i \in 1..Len(text) : text[i] \in UrlWords} IN
    IF at = {} THEN NoUrl
    ELSE text[CHOOSE i \in at : \A j \in at : i <= j]

\* a || b
Or(a, b) == IF a = Undefined \/ a = "" THEN b ELSE a

\* new URL(url).protocol, or the TypeError of a string that does not parse
InvalidURL == "TypeError: Invalid URL"
URLStrings ==
    {"https://a", "http://b", "HTTP://C", "http://:", "ftp://d", "not-a-url", ""}
URLProtocol(url) ==
    CASE url = "https://a" -> "https:"
      [] url \in {"http://b", "HTTP://C"} -> "http:"
      [] url = "ftp://d" -> "ftp:"
      [] OTHER -> InvalidURL

\* mutant: any URL that parses is fetched
ValidUrlAnyProtocol(url) == URLProtocol(url) # InvalidURL

\* the values extractUrl is called with: null, undefined or a string
Null == [type |-> "null"]
Str(words) == [type |-> "string", words |-> words]
Words == {"hello", "https://a", "http://b", "ftp://d"}
ExtractArgs ==
    {Null, [type |-> "undefined"], Str(<<>>)}
        \cup {Str(w) : w \in SeqsUpTo(Words, MaxWords)}

\* !text
Falsy(value) ==
    IF value.type \in {"null", "undefined"} THEN TRUE ELSE value.words = <<>>

\* extractUrl on any value
extractUrlOf(value) ==
    IF Falsy(value) THEN NoUrl ELSE extractUrl(value.words)

\* new URL(url) parses and the protocol is http: or https:
ValidUrl(url) ==
    IF URLProtocol(url) = InvalidURL THEN FALSE
    ELSE URLProtocol(url) \in {"http:", "https:"}

\* what the selectors find in a page: attr() gives undefined and text() gives
\* '' when the element is absent
EmptyPage ==
    [ogTitle |-> Undefined, twTitle |-> Undefined, title |-> "",
     ogDescription |-> Undefined, twDescription |-> Undefined,
     description |-> Undefined, ogImage |-> Undefined, twImage |-> Undefined]
TitlePage == [EmptyPage EXCEPT !.title = "T"]
\* what a field's sources hold, in the order og:, twitter:, generic tag
SourcePatterns ==
    {<<Undefined, Undefined, Undefined>>, <<"P", "S", "G">>,
     <<Undefined, "S", "G">>, <<"", "S", "G">>, <<Undefined, Undefined, "G">>,
     <<"", "", "G">>, <<"P", Undefined, Undefined>>, <<"", "", "">>}
Pages ==
    {[ogTitle |-> t[1], twTitle |-> t[2], title |-> Or(t[3], ""),
      ogDescription |-> d[1], twDescription |-> d[2], description |-> d[3],
      ogImage |-> i[1], twImage |-> i[2]] :
        t \in SourcePatterns, d \in SourcePatterns, i \in SourcePatterns}

\* mutant: the twitter: tags are looked at before the og: tags
ExtractMetadataTwitterFirst(page, finalUrl) ==
    LET title == Or(page.twTitle, Or(page.ogTitle, Or(page.title, Undefined)))
        description ==
            Or(page.twDescription,
               Or(page.ogDescription, Or(page.description, Undefined)))
        image == Or(page.twImage, Or(page.ogImage, Undefined)) IN
    [title |-> Or(title, Undefined),
     description |-> Or(description, Undefined),
     image |-> Or(image, Undefined),
     url |-> finalUrl]

\* the metadata fetchMetadata extracts from a page
ExtractMetadata(page, finalUrl) ==
    LET title == Or(page.ogTitle, Or(page.twTitle, Or(page.title, Undefined)))
        description ==
            Or(page.ogDescription,
               Or(page.twDescription, Or(page.description, Undefined)))
        image == Or(page.ogImage, Or(page.twImage, Undefined)) IN
    [title |-> Or(title, Undefined),
     description |-> Or(description, Undefined),
     image |-> Or(image, Undefined),
     url |-> finalUrl]

\* the partial result
Partial(url) == [url |-> url, partial |-> TRUE]

\* what fetch() does for the page
Responses == {"html", "network error", "timeout", "non-2xx"}

\* fetchMetadata for a valid URL, as one step
fetchMetadata(url, response) ==
    IF response = "html"
    THEN ExtractMetadata(TitlePage, Or("", url))
    ELSE Partial(url)

\* the bookmark handleUpdate builds
CreateBookmark(id, url, metadata, time) ==
    [id |-> id,
     url |-> Or(Get(metadata, "url"), url),
     title |-> Or(Get(metadata, "title"), Undefined),
     description |-> Or(Get(metadata, "description"), Undefined),
     image |-> Or(Get(metadata, "image"), Undefined),
     tags |-> <<>>, source |-> "telegram", timestamp |-> time,
     chat_id |-> 123]

RetryKey(id) == <<"retry:", id>>
Keys == {RetryKey(i) : i \in 1..NumUpdates}

\* KV put and delete
KVPut(q, key, value) ==
    [k \in DOMAIN q \cup {key} |-> IF k = key THEN value ELSE q[k]]
KVDelete(q, key) == [k \in DOMAIN q \ {key} |-> q[k]]

\* mutant: the entry starts at attempts 0
NewRetryDataZero(bookmark, message, time) ==
    [bookmark |-> bookmark, attempts |-> 0, lastError |-> message,
     createdAt |-> time]

\* the entry handleUpdate queues
NewRetryData(bookmark, message, time) ==
    [bookmark |-> bookmark, attempts |-> 1, lastError |-> message,
     createdAt |-> time]

\* the X-Telegram-Bot-Api-Secret-Token header of a request (null when the
\* header is missing) and the configured secret
NullToken == "null"
WEBHOOK_SECRET == "my-secret"
Tokens == {WEBHOOK_SECRET, "wrong-secret", NullToken}

\* mutant: a request without the header is let through
verifyWebhookSignatureOrMissing(token, secret) ==
    token = secret \/ token = NullToken

\* token === secret
verifyWebhookSignature(token, secret) == token = secret

\* the webhook route answers 401 to a request that fails the verification
Unauthorized(u) ==
    /\ proc[u].pc = "idle"
    /\ \A v \in Updates : v[2] < u[2] => proc[v].pc # "idle"
    /\ \E token \in Tokens :
         /\ ~verifyWebhookSignature(token, WEBHOOK_SECRET)
         /\ proc' = [proc EXCEPT ![u] =
                [@ EXCEPT !.pc = "done", !.outcome = "401", !.token = token]]
    /\ UNCHANGED <<content, sha, queue, ticks, nextId, base, commits, swept>>

\* mutant: a text without a URL is passed on as the URL
HandleUpdateFetchesAnyway(u) ==
    /\ proc[u].pc = "idle"
    /\ \A v \in Updates : v[2] < u[2] => proc[v].pc # "idle"
    /\ \E text \in Texts, token \in Tokens :
         /\ verifyWebhookSignature(token, WEBHOOK_SECRET)
         /\ proc' = [proc EXCEPT ![u] =
              IF IsCommand(text)
              THEN [@ EXCEPT !.pc = "reply_command", !.text = text,
                             !.token = token]
              ELSE [@ EXCEPT !.pc = "fetch", !.url = extractUrl(text),
                             !.text = text, !.token = token]]
    /\ UNCHANGED <<content, sha, queue, ticks, nextId, base, commits, swept>>

\* mutant: a URL in the text is looked for before the command
HandleUpdateUrlFirst(u) ==
    /\ proc[u].pc = "idle"
    /\ \A v \in Updates : v[2] < u[2] => proc[v].pc # "idle"
    /\ \E text \in Texts, token \in Tokens :
         /\ verifyWebhookSignature(token, WEBHOOK_SECRET)
         /\ proc' = [proc EXCEPT ![u] =
              IF extractUrl(text) # NoUrl
              THEN [@ EXCEPT !.pc = "fetch", !.url = extractUrl(text),
                             !.text = text, !.token = token]
              ELSE IF IsCommand(text)
              THEN [@ EXCEPT !.pc = "reply_command", !.text = text,
                             !.token = token]
              ELSE [@ EXCEPT !.pc = "done", !.outcome = "Ignored",
                             !.text = text, !.token = token]]
    /\ UNCHANGED <<content, sha, queue, ticks, nextId, base, commits, swept>>

\* handleUpdate up to its first await
HandleUpdate(u) ==
    /\ proc[u].pc = "idle"
    /\ \A v \in Updates : v[2] < u[2] => proc[v].pc # "idle"
    /\ \E text \in Texts, token \in Tokens :
         /\ verifyWebhookSignature(token, WEBHOOK_SECRET)
         /\ proc' = [proc EXCEPT ![u] =
              IF IsCommand(text)
              THEN [@ EXCEPT !.pc = "reply_command", !.text = text,
                             !.token = token]
              ELSE IF extractUrl(text) = NoUrl
              THEN [@ EXCEPT !.pc = "done", !.outcome = "Ignored",
                             !.text = text, !.token = token]
              ELSE [@ EXCEPT !.pc = "fetch", !.url = extractUrl(text),
                             !.text = text, !.token = token]]
    /\ UNCHANGED <<content, sha, queue, ticks, nextId, base, commits, swept>>

\* sendMessage for a command
ReplyCommand(u) ==
    /\ proc[u].pc = "reply_command"
    /\ proc' = [proc EXCEPT ![u] = [@ EXCEPT !.pc = "done", !.outcome = "Command"]]
    /\ UNCHANGED <<content, sha, queue, ticks, nextId, base, commits, swept>>

ReplyCommandFail(u) ==
    /\ proc[u].pc = "reply_command"
    /\ proc' = [proc EXCEPT ![u] = [@ EXCEPT !.pc = "threw", !.error = "request failed"]]
    /\ UNCHANGED <<content, sha, queue, ticks, nextId, base, commits, swept>>

\* mutant: a URL that fetchMetadata refuses is queued for a retry
FetchInvalidQueued(u) ==
    /\ proc[u].pc = "fetch"
    /\ ~ValidUrl(proc[u].url)
    /\ proc' = [proc EXCEPT ![u] =
          [@ EXCEPT !.pc = "queue_put", !.error = "InvalidUrlError",
                    !.bookmark = CreateBookmark(nextId + 1, proc[u].url,
                                                Partial(proc[u].url), Now)]]
    /\ nextId' = nextId + 1
    /\ UNCHANGED <<content, sha, queue, ticks, base, commits, swept>>

\* fetchMetadata throws InvalidUrlError
FetchInvalid(u) ==
    /\ proc[u].pc = "fetch"
    /\ ~ValidUrl(proc[u].url)
    /\ proc' = [proc EXCEPT ![u] = [@ EXCEPT !.pc = "threw", !.error = "InvalidUrlError"]]
    /\ UNCHANGED <<content, sha, queue, ticks, nextId, base, commits, swept>>

\* mutant: every bookmark gets the same id
FetchDoneSameId(u) ==
    /\ proc[u].pc = "fetch"
    /\ ValidUrl(proc[u].url)
    /\ \E response \in Responses :
         LET metadata == fetchMetadata(proc[u].url, response) IN
         proc' = [proc EXCEPT ![u] =
            [@ EXCEPT !.pc = "save_read",
                      !.metadata = metadata,
                      !.bookmark = CreateBookmark(1, proc[u].url,
                                                  metadata, Now)]]
    /\ nextId' = nextId + 1
    /\ UNCHANGED <<content, sha, queue, ticks, base, commits, swept>>

\* fetchMetadata returns; the bookmark is built and saveBookmark is entered
FetchDone(u) ==
    /\ proc[u].pc = "fetch"
    /\ ValidUrl(proc[u].url)
    /\ \E response \in Responses :
         LET metadata == fetchMetadata(proc[u].url, response) IN
         proc' = [proc EXCEPT ![u] =
            [@ EXCEPT !.pc = "save_read",
                      !.metadata = metadata,
                      !.bookmark = CreateBookmark(nextId + 1, proc[u].url,
                                                  metadata, Now)]]
    /\ nextId' = nextId + 1
    /\ UNCHANGED <<content, sha, queue, ticks, base, commits, swept>>

\* sendMessage with the saved reply
ReplySaved(u) ==
    /\ proc[u].pc = "reply_saved"
    /\ proc' = [proc EXCEPT ![u] = [@ EXCEPT !.pc = "done", !.outcome = "Saved"]]
    /\ UNCHANGED <<content, sha, queue, ticks, nextId, base, commits, swept>>

\* sendMessage with the saved reply throws: it is inside the try
ReplySavedFail(u) ==
    /\ proc[u].pc = "reply_saved"
    /\ proc' = [proc EXCEPT ![u] = [@ EXCEPT !.pc = "queue_put", !.error = "request failed"]]
    /\ UNCHANGED <<content, sha, queue, ticks, nextId, base, commits, swept>>

\* mutant: the queued reply is sent without the put
QueuePutSkipped(u) ==
    /\ proc[u].pc = "queue_put"
    /\ proc' = [proc EXCEPT ![u] = [@ EXCEPT !.pc = "reply_queued"]]
    /\ UNCHANGED <<content, sha, queue, ticks, nextId, base, commits, swept>>

\* catch: RETRY_QUEUE.put
QueuePut(u) ==
    /\ proc[u].pc = "queue_put"
    /\ queue' = KVPut(queue, RetryKey(proc[u].bookmark.id),
                      JSONstringify(NewRetryData(proc[u].bookmark,
                                                 proc[u].error, Now)))
    /\ proc' = [proc EXCEPT ![u] = [@ EXCEPT !.pc = "reply_queued"]]
    /\ UNCHANGED <<content, sha, ticks, nextId, base, commits, swept>>

QueuePutFail(u) ==
    /\ proc[u].pc = "queue_put"
    /\ proc' = [proc EXCEPT ![u] = [@ EXCEPT !.pc = "threw", !.error = "request failed"]]
    /\ UNCHANGED <<content, sha, queue, ticks, nextId, base, commits, swept>>

\* catch: sendMessage with the queued reply
ReplyQueued(u) ==
    /\ proc[u].pc = "reply_queued"
    /\ proc' = [proc EXCEPT ![u] = [@ EXCEPT !.pc = "done", !.outcome = "Queued"]]
    /\ UNCHANGED <<content, sha, queue, ticks, nextId, base, commits, swept>>

ReplyQueuedFail(u) ==
    /\ proc[u].pc = "reply_queued"
    /\ proc' = [proc EXCEPT ![u] = [@ EXCEPT !.pc = "threw", !.error = "request failed"]]
    /\ UNCHANGED <<content, sha, queue, ticks, nextId, base, commits, swept>>

\* ----------------------------------- extractUrl, and the record built from it
\* extractUrl is applied to its argument
ExtractUrl(p) ==
    /\ proc[p].pc = "extract"
    /\ proc' = [proc EXCEPT ![p] =
          [@ EXCEPT !.pc = "done", !.url = extractUrlOf(proc[p].arg)]]
    /\ UNCHANGED <<content, sha, queue, ticks, nextId, base, commits, swept>>

InitExtract ==
    /\ sha = 1
    /\ content = <<JSONstringify(RecordZero)>>
    /\ base = content
    /\ commits = <<>>
    /\ queue = <<>>
    /\ swept = <<>>
    /\ ticks = 0
    /\ nextId = 0
    /\ \E arg \in ExtractArgs :
         proc = [p \in {Extractor, <<"update", 1>>} |->
                   IF p = Extractor
                   THEN [Fresh EXCEPT !.pc = "extract", !.arg = arg]
                   ELSE Fresh]

\* one extractUrl call on its own, and one submission with a store, a queue
\* and a reply channel that answer
NextExtract ==
    \/ ExtractUrl(Extractor)
    \/ \E u \in {<<"update", 1>>} :
          \/ HandleUpdate(u)
          \/ ReplyCommand(u)
          \/ FetchInvalid(u)
          \/ FetchDone(u)
          \/ SaveRead(u)
          \/ SaveWriteOk(u)
          \/ ReplySaved(u)

SpecExtract == InitExtract /\ [][NextExtract]_vars

\* ------------------------------------------- fetchMetadata, step by step
\* what fetch() resolves with: ok and the final URL ('' when there is none)
ResponseSet == {[ok |-> o, url |-> r] : o \in BOOLEAN, r \in {"", "https://final"}}

InFetch(p) == proc[p].pc \in {"awaiting_response", "reading_body"}

\* the URL is validated; a valid one has its timer set and its request sent
ValidateUrl(p) ==
    /\ proc[p].pc = "validate"
    /\ proc' = [proc EXCEPT ![p] =
          IF ~ValidUrl(proc[p].url)
          THEN [@ EXCEPT !.pc = "threw", !.error = "InvalidUrlError"]
          ELSE [@ EXCEPT !.pc = "awaiting_response", !.timer = "armed",
                         !.clock = 0, !.requests = @ + 1]]
    /\ UNCHANGED <<content, sha, queue, ticks, nextId, base, commits, swept>>

\* time passes while the call waits; a timer that is due runs first
Tick(p) ==
    /\ InFetch(p)
    /\ ~proc[p].aborted
    /\ ~(proc[p].timer = "armed" /\ proc[p].clock >= TIMEOUT_MS)
    /\ proc[p].clock < MaxClock
    /\ proc' = [proc EXCEPT ![p] = [@ EXCEPT !.clock = @ + TickMs]]
    /\ UNCHANGED <<content, sha, queue, ticks, nextId, base, commits, swept>>

\* the setTimeout callback: controller.abort()
TimerFires(p) ==
    /\ InFetch(p)
    /\ proc[p].timer = "armed"
    /\ proc[p].clock >= TIMEOUT_MS
    /\ proc' = [proc EXCEPT ![p] = [@ EXCEPT !.timer = "fired", !.aborted = TRUE]]
    /\ UNCHANGED <<content, sha, queue, ticks, nextId, base, commits, swept>>

\* the aborted request rejects with AbortError: catch
AbortRejects(p) ==
    /\ InFetch(p)
    /\ proc[p].aborted
    /\ proc' = [proc EXCEPT ![p] =
          [@ EXCEPT !.pc = "done", !.error = "AbortError", !.timer = "cleared",
                    !.metadata = Partial(proc[p].url)]]
    /\ UNCHANGED <<content, sha, queue, ticks, nextId, base, commits, swept>>

\* fetch() resolves: clearTimeout, and a response that is not ok is returned
\* as a partial result
ResponseArrives(p) ==
    /\ proc[p].pc = "awaiting_response"
    /\ ~proc[p].aborted
    /\ \E response \in ResponseSet :
         proc' = [proc EXCEPT ![p] =
            IF ~response.ok
            THEN [@ EXCEPT !.pc = "done", !.timer = "cleared",
                           !.response = response,
                           !.metadata = Partial(Or(response.url, proc[p].url))]
            ELSE [@ EXCEPT !.pc = "reading_body", !.timer = "cleared",
                           !.response = response]]
    /\ UNCHANGED <<content, sha, queue, ticks, nextId, base, commits, swept>>

\* mutant: the catch rethrows
FetchRejectsRethrown(p) ==
    /\ proc[p].pc = "awaiting_response"
    /\ ~proc[p].aborted
    /\ proc' = [proc EXCEPT ![p] =
          [@ EXCEPT !.pc = "threw", !.error = "network error",
                    !.timer = "cleared"]]
    /\ UNCHANGED <<content, sha, queue, ticks, nextId, base, commits, swept>>

\* fetch() rejects with a network error: catch
FetchRejects(p) ==
    /\ proc[p].pc = "awaiting_response"
    /\ ~proc[p].aborted
    /\ proc' = [proc EXCEPT ![p] =
          [@ EXCEPT !.pc = "done", !.error = "network error",
                    !.timer = "cleared", !.metadata = Partial(proc[p].url)]]
    /\ UNCHANGED <<content, sha, queue, ticks, nextId, base, commits, swept>>

\* response.text() resolves; the page is parsed and the metadata returned
BodyArrives(p) ==
    /\ proc[p].pc = "reading_body"
    /\ ~proc[p].aborted
    /\ \E page \in Pages :
         proc' = [proc EXCEPT ![p] =
            [@ EXCEPT !.pc = "done",
                      !.page = page,
                      !.metadata =
                          ExtractMetadata(page, Or(proc[p].response.url,
                                                   proc[p].url))]]
    /\ UNCHANGED <<content, sha, queue, ticks, nextId, base, commits, swept>>

\* response.text() rejects or the parser throws: catch
BodyRejects(p) ==
    /\ proc[p].pc = "reading_body"
    /\ ~proc[p].aborted
    /\ proc' = [proc EXCEPT ![p] =
          [@ EXCEPT !.pc = "done", !.error = "body error", !.timer = "cleared",
                    !.metadata = Partial(proc[p].url)]]
    /\ UNCHANGED <<content, sha, queue, ticks, nextId, base, commits, swept>>

InitFetch ==
    /\ sha = 1
    /\ content = <<JSONstringify(RecordZero)>>
    /\ base = content
    /\ commits = <<>>
    /\ queue = <<>>
    /\ swept = <<>>
    /\ ticks = 0
    /\ nextId = 0
    /\ \E url \in URLStrings :
         proc = [p \in {Fetcher} |->
                   [Fresh EXCEPT !.pc = "validate", !.url = url]]

NextFetch ==
    \E p \in {Fetcher} :
        \/ ValidateUrl(p)
        \/ Tick(p)
        \/ TimerFires(p)
        \/ AbortRejects(p)
        \/ ResponseArrives(p)
        \/ FetchRejects(p)
        \/ BodyArrives(p)
        \/ BodyRejects(p)

SpecFetch == InitFetch /\ [][NextFetch]_vars

\* ------------------------------------------------------------- the sweep
\* RETRY_QUEUE.list({prefix: 'retry:'}): the keys in the store's order
RECURSIVE SortedKeys(_)
SortedKeys(ks) ==
    IF ks = {} THEN <<>>
    ELSE LET k == CHOOSE x \in ks : \A y \in ks : x[2] <= y[2] IN
         <<k>> \o SortedKeys(ks \ {k})

KVList(q, prefix) == SortedKeys({k \in DOMAIN q : k[1] = prefix})

\* mutant: the rewritten entry holds a bookmark without its title
UpdatedDataRebuilt(retryData, message, time) ==
    [f \in DOMAIN retryData \cup {"attempts", "lastError", "lastAttempt"} |->
        CASE f = "attempts" -> retryData.attempts + 1
          [] f = "lastError" -> message
          [] f = "lastAttempt" -> time
          [] f = "bookmark" ->
                [g \in DOMAIN retryData.bookmark \ {"title"} |->
                    retryData.bookmark[g]]
          [] OTHER -> retryData[f]]

\* mutant: the attempts go up by two
UpdatedDataPlusTwo(retryData, message, time) ==
    [f \in DOMAIN retryData \cup {"attempts", "lastError", "lastAttempt"} |->
        CASE f = "attempts" -> retryData.attempts + 2
          [] f = "lastError" -> message
          [] f = "lastAttempt" -> time
          [] OTHER -> retryData[f]]

\* mutant: the rewritten entry is stamped as created now
UpdatedDataNewCreatedAt(retryData, message, time) ==
    [f \in DOMAIN retryData \cup {"attempts", "lastError", "lastAttempt"} |->
        CASE f = "attempts" -> retryData.attempts + 1
          [] f = "lastError" -> message
          [] f \in {"lastAttempt", "createdAt"} -> time
          [] OTHER -> retryData[f]]

\* {...retryData, attempts: attempts + 1, lastError, lastAttempt}
UpdatedData(retryData, message, time) ==
    [f \in DOMAIN retryData \cup {"attempts", "lastError", "lastAttempt"} |->
        CASE f = "attempts" -> retryData.attempts + 1
          [] f = "lastError" -> message
          [] f = "lastAttempt" -> time
          [] OTHER -> retryData[f]]

\* mutant: the loop takes the same key again
ContinueSameKey(loc) ==
    [loc EXCEPT !.pc = "get", !.bookmark = NoBookmark,
                !.retryData = NoBookmark, !.error = ""]

\* the for loop goes on to the next listed key, or the sweep ends
Continue(loc) ==
    IF Len(loc.keys) > 1
    THEN [loc EXCEPT !.keys = Tail(loc.keys), !.pc = "get",
                     !.bookmark = NoBookmark, !.retryData = NoBookmark,
                     !.error = ""]
    ELSE [Fresh EXCEPT !.pc = "done"]

Running(s) == proc[s].pc \notin {"idle", "done", "threw"}

\* the history is kept for the keys in its domain
Note(key, what) ==
    IF key \in DOMAIN swept
    THEN [swept EXCEPT ![key] = [@ EXCEPT ![what] = @ + 1]]
    ELSE swept

\* the cron trigger starts handleScheduled
Scheduled(s, limit) ==
    /\ ~Running(s)
    /\ \A t \in Sweepers : t[2] < s[2] => Running(t)
    /\ ticks < limit
    /\ ticks' = ticks + 1
    /\ proc' = [proc EXCEPT ![s] = [Fresh EXCEPT !.pc = "list"]]
    /\ UNCHANGED <<content, sha, queue, nextId, base, commits, swept>>

\* RETRY_QUEUE.list answers
List(s) ==
    /\ proc[s].pc = "list"
    /\ LET keys == KVList(queue, "retry:") IN
       proc' = [proc EXCEPT ![s] =
                  [@ EXCEPT !.keys = keys, !.listed = keys,
                            !.pc = IF keys = <<>> THEN "done" ELSE "get"]]
    /\ UNCHANGED <<content, sha, queue, ticks, nextId, base, commits, swept>>

\* RETRY_QUEUE.list throws: outside the loop's try
ListFail(s) ==
    /\ proc[s].pc = "list"
    /\ proc' = [proc EXCEPT ![s] = [@ EXCEPT !.pc = "threw"]]
    /\ UNCHANGED <<content, sha, queue, ticks, nextId, base, commits, swept>>

\* mutant: a key without a value ends the sweep
QueueGetMissingStops(s) ==
    /\ proc[s].pc = "get"
    /\ LET key == Head(proc[s].keys)
           loc == proc[s] IN
       IF key \notin DOMAIN queue
       THEN /\ proc' = [proc EXCEPT ![s] = [Fresh EXCEPT !.pc = "done"]]
            /\ swept' = swept
       ELSE IF ~Parsable(queue[key])
       THEN /\ proc' = [proc EXCEPT ![s] = Continue(loc)]
            /\ swept' = swept
       ELSE /\ proc' = [proc EXCEPT ![s] =
                  [loc EXCEPT !.pc = "save_read",
                              !.retryData = JSONparse(queue[key]),
                              !.bookmark = JSONparse(queue[key]).bookmark,
                              !.attempt = 0, !.reads = 0, !.writes = 0,
                              !.conflicts = 0, !.stale = {}, !.seen = <<>>]]
            /\ swept' = Note(key, "appends")
    /\ UNCHANGED <<content, sha, queue, ticks, nextId, base, commits>>

\* RETRY_QUEUE.get answers for the current key
QueueGet(s) ==
    /\ proc[s].pc = "get"
    /\ LET key == Head(proc[s].keys)
           loc == proc[s] IN
       IF key \notin DOMAIN queue
       THEN /\ proc' = [proc EXCEPT ![s] = Continue(loc)]
            /\ swept' = swept
       ELSE IF ~Parsable(queue[key])
       THEN /\ proc' = [proc EXCEPT ![s] = Continue(loc)]
            /\ swept' = swept
       ELSE /\ proc' = [proc EXCEPT ![s] =
                  [loc EXCEPT !.pc = "save_read",
                              !.retryData = JSONparse(queue[key]),
                              !.bookmark = JSONparse(queue[key]).bookmark,
                              !.attempt = 0, !.reads = 0, !.writes = 0,
                              !.conflicts = 0, !.stale = {}, !.seen = <<>>]]
            /\ swept' = Note(key, "appends")
    /\ UNCHANGED <<content, sha, queue, ticks, nextId, base, commits>>

\* mutant: a failing get ends the sweep
QueueGetFailAborts(s) ==
    /\ proc[s].pc = "get"
    /\ proc' = [proc EXCEPT ![s] = [Fresh EXCEPT !.pc = "threw"]]
    /\ UNCHANGED <<content, sha, queue, ticks, nextId, base, commits, swept>>

\* RETRY_QUEUE.get throws: caught by the loop's try
QueueGetFail(s) ==
    /\ proc[s].pc = "get"
    /\ proc' = [proc EXCEPT ![s] = Continue(proc[s])]
    /\ UNCHANGED <<content, sha, queue, ticks, nextId, base, commits, swept>>

\* mutant: after a successful append the entry is written back, not deleted
DeleteResolvedKeepsKey(s) ==
    /\ proc[s].pc = "delete_ok"
    /\ LET key == Head(proc[s].keys) IN
       /\ queue' = KVPut(queue, key, JSONstringify(proc[s].retryData))
       /\ swept' = Note(key, "resolved")
       /\ proc' = [proc EXCEPT ![s] = Continue(proc[s])]
    /\ UNCHANGED <<content, sha, ticks, nextId, base, commits>>

\* saveBookmark returned: RETRY_QUEUE.delete
DeleteResolved(s) ==
    /\ proc[s].pc = "delete_ok"
    /\ LET key == Head(proc[s].keys) IN
       /\ queue' = KVDelete(queue, key)
       /\ swept' = Note(key, "resolved")
       /\ proc' = [proc EXCEPT ![s] = Continue(proc[s])]
    /\ UNCHANGED <<content, sha, ticks, nextId, base, commits>>

DeleteResolvedFail(s) ==
    /\ proc[s].pc = "delete_ok"
    /\ proc' = [proc EXCEPT ![s] = Continue(proc[s])]
    /\ UNCHANGED <<content, sha, queue, ticks, nextId, base, commits, swept>>

\* saveBookmark threw and attempts >= MAX_ATTEMPTS: RETRY_QUEUE.delete
DeleteMaxed(s) ==
    /\ proc[s].pc = "delete_max"
    /\ LET key == Head(proc[s].keys) IN
       /\ queue' = KVDelete(queue, key)
       /\ swept' = Note(key, "dropped")
       /\ proc' = [proc EXCEPT ![s] = Continue(proc[s])]
    /\ UNCHANGED <<content, sha, ticks, nextId, base, commits>>

DeleteMaxedFail(s) ==
    /\ proc[s].pc = "delete_max"
    /\ proc' = [proc EXCEPT ![s] = Continue(proc[s])]
    /\ UNCHANGED <<content, sha, queue, ticks, nextId, base, commits, swept>>

\* saveBookmark threw and attempts < MAX_ATTEMPTS: RETRY_QUEUE.put
QueueUpdate(s) ==
    /\ proc[s].pc = "put"
    /\ LET key == Head(proc[s].keys) IN
       /\ queue' = KVPut(queue, key,
                         JSONstringify(UpdatedData(proc[s].retryData,
                                                   proc[s].error, Later)))
       /\ swept' = Note(key, "puts")
       /\ proc' = [proc EXCEPT ![s] = Continue(proc[s])]
    /\ UNCHANGED <<content, sha, ticks, nextId, base, commits>>

QueueUpdateFail(s) ==
    /\ proc[s].pc = "put"
    /\ proc' = [proc EXCEPT ![s] = Continue(proc[s])]
    /\ UNCHANGED <<content, sha, queue, ticks, nextId, base, commits, swept>>

\* ------------------------------------------------------------ the system
\* the blob exists and holds one record (a first write to a missing blob is
\* part of SpecSave)
InitSystem ==
    /\ sha = 1
    /\ content = <<JSONstringify(RecordZero)>>
    /\ base = content
    /\ commits = <<>>
    /\ queue = <<>>
    /\ ticks = 0
    /\ nextId = 0
    /\ proc = [p \in Updates \cup Sweepers |-> Fresh]

Init == InitSystem /\ swept = <<>>

InitSeq ==
    /\ InitSystem
    /\ swept = [k \in Keys |->
                  [appends |-> 0, puts |-> 0, resolved |-> 0, dropped |-> 0]]

UpdateStep(u) ==
    \/ HandleUpdate(u)
    \/ ReplyCommand(u)
    \/ FetchInvalid(u)
    \/ FetchDone(u)
    \/ SaveRead(u)
    \/ SaveWriteOk(u)
    \/ SaveWriteConflict(u)
    \/ ReplySaved(u)
    \/ QueuePut(u)
    \/ ReplyQueued(u)

SweepStep(s) ==
    \/ List(s)
    \/ QueueGet(s)
    \/ SaveRead(s)
    \/ SaveWriteOk(s)
    \/ SaveWriteConflict(s)
    \/ DeleteResolved(s)
    \/ DeleteMaxed(s)
    \/ QueueUpdate(s)

\* the store fails a call of saveBookmark with something other than a conflict
StoreFault(p) ==
    \/ SaveReadFail(p)
    \/ SaveWriteFail(p)

\* the reply channel fails a sendMessage
ReplyFault(u) ==
    \/ ReplyCommandFail(u)
    \/ ReplySavedFail(u)
    \/ ReplyQueuedFail(u)

UpdateFault(u) ==
    \/ StoreFault(u)
    \/ ReplyFault(u)
    \/ QueuePutFail(u)

\* the retry queue fails a call of the sweep
QueueFault(s) ==
    \/ ListFail(s)
    \/ QueueGetFail(s)
    \/ DeleteResolvedFail(s)
    \/ DeleteMaxedFail(s)
    \/ QueueUpdateFail(s)

FirstUpdate == <<"update", 1>>
FirstSweeper == <<"sweep", 1>>

\* live submissions overlap each other and the sweep; every external call may
\* fail; the cron trigger fires when the previous sweep has ended
Next ==
    \/ \E u \in Updates : UpdateStep(u) \/ UpdateFault(u)
    \/ \E s \in {FirstSweeper} :
          Scheduled(s, MaxSweeps) \/ SweepStep(s) \/ StoreFault(s) \/ QueueFault(s)

Spec == Init /\ [][Next]_vars

\* sweeps overlap each other and a live submission; every external call may fail
NextOverlap ==
    \/ \E u \in {FirstUpdate} : UpdateStep(u) \/ UpdateFault(u)
    \/ \E s \in Sweepers :
          Scheduled(s, MaxSweeps) \/ SweepStep(s) \/ StoreFault(s) \/ QueueFault(s)

SpecOverlap == Init /\ [][NextOverlap]_vars

\* one sweep at a time and a retry queue and a reply channel that answer every
\* call; the store may fail and live submissions overlap the sweep
NextSeq ==
    \/ \E u \in Updates : UpdateStep(u) \/ StoreFault(u)
    \/ \E s \in {FirstSweeper} :
          Scheduled(s, MaxSeqSweeps) \/ SweepStep(s) \/ StoreFault(s)

SpecSeq == InitSeq /\ [][NextSeq]_vars

\* one sweep at a time, a reply channel that answers and a retry queue that
\* answers the sweep; the store may fail and so may the put of handleUpdate
NextLoss ==
    \/ \E u \in Updates : UpdateStep(u) \/ StoreFault(u) \/ QueuePutFail(u)
    \/ \E s \in {FirstSweeper} :
          Scheduled(s, MaxSeqSweeps) \/ SweepStep(s) \/ StoreFault(s)

SpecLoss == InitSeq /\ [][NextLoss]_vars

\* sweeps overlap each other; the retry queue and the reply channel answer
\* every call and the store may fail
NextRetry ==
    \/ \E u \in {FirstUpdate} : UpdateStep(u) \/ StoreFault(u)
    \/ \E s \in Sweepers :
          Scheduled(s, MaxSeqSweeps) \/ SweepStep(s) \/ StoreFault(s)

SpecRetry == InitSeq /\ [][NextRetry]_vars

\* the submissions whose saveBookmark failed have all been queued
QueuedBookmark(i) ==
    CreateBookmark(i, "https://a", fetchMetadata("https://a", "html"), Now)

InitQueued ==
    /\ sha = 1
    /\ content = <<JSONstringify(RecordZero)>>
    /\ base = content
    /\ commits = <<>>
    /\ queue = [k \in Keys |->
                  JSONstringify(NewRetryData(QueuedBookmark(k[2]),
                                             "request failed", Now))]
    /\ swept = [k \in Keys |->
                  [appends |-> 0, puts |-> 0, resolved |-> 0, dropped |-> 0]]
    /\ ticks = 0
    /\ nextId = NumUpdates
    /\ proc = [p \in Sweepers |-> Fresh]

\* sweeps overlap each other over a queue that holds several entries; the
\* retry queue answers every call and the store may fail
NextSweeps ==
    \E s \in Sweepers :
        Scheduled(s, MaxSeqSweeps) \/ SweepStep(s) \/ StoreFault(s)

SpecSweeps == InitQueued /\ [][NextSweeps]_vars

\* the webhook route in front of handleUpdate: requests with any token; one
\* sweep at a time; the store may fail
NextWebhook ==
    \/ \E u \in Updates : Unauthorized(u) \/ UpdateStep(u) \/ StoreFault(u)
    \/ \E s \in {FirstSweeper} :
          Scheduled(s, MaxSweeps) \/ SweepStep(s) \/ StoreFault(s)

SpecWebhook == Init /\ [][NextWebhook]_vars

\* an external call of the store, the retry queue or the reply channel is
\* pending (the code sets no timer for any of them)
CallPending(p) ==
    proc[p].pc \in {"save_read", "save_write", "reply_command", "reply_saved",
                    "queue_put", "reply_queued", "list", "get", "delete_ok",
                    "delete_max", "put"}

\* the pending call never responds: the invocation stays at its await
NeverResponds(p) ==
    /\ CallPending(p)
    /\ proc' = [proc EXCEPT ![p] = [@ EXCEPT !.pc = "hung"]]
    /\ UNCHANGED <<content, sha, queue, ticks, nextId, base, commits, swept>>

\* one sweep at a time; a call of the store may fail and any call may stay
\* without a response
NextHang ==
    \/ \E u \in Updates :
          UpdateStep(u) \/ StoreFault(u) \/ NeverResponds(u)
    \/ \E s \in {FirstSweeper} :
          Scheduled(s, MaxSweeps) \/ SweepStep(s) \/ StoreFault(s)
              \/ NeverResponds(s)

\* the runtime resumes an invocation whenever the call it awaits has answered
SpecHang ==
    /\ Init
    /\ [][NextHang]_vars
    /\ \A u \in Updates : WF_vars(UpdateStep(u))
    /\ WF_vars(SweepStep(FirstSweeper))

\* --------------------------------------------------- claims on the system
IdAt(i) == JSONparse(content[i]).id
InLog(bookmark) == \E i \in 1..Len(content) : content[i] = JSONstringify(bookmark)
LoopPcs == {"get", "save_read", "save_write", "delete_ok", "delete_max", "put"}

\* the bookmark handleUpdate built under this id
Built(id) ==
    LET u == CHOOSE v \in Updates : proc[v].bookmark.id = id IN proc[u].bookmark

SameFields(a, b) == \A f \in BookmarkFields : Get(a, f) = Get(b, f)

\* C2: in every reachable state no two records of the log have the same id.
C2_UniqueIds ==
    \A i, j \in 1..Len(content) : i # j => IdAt(i) # IdAt(j)

\* C3: every accepted conditional write leaves the committed records where
\* they are and adds exactly one record at the end, and the log is the initial
\* log followed by the accepted writes in the order the store accepted them.
C3_AppendOnlyStep ==
    content' # content =>
        /\ Len(content') = Len(content) + 1
        /\ SubSeq(content', 1, Len(content)) = content
        /\ commits' = Append(commits, content'[Len(content')])

C3_AppendOnly ==
    /\ [](content = base \o commits)
    /\ [][C3_AppendOnlyStep]_vars

\* a sweep and a live submission have both read the same revision, the sweep
\* has committed, and the live submission's write is still to come
C3_Witness ==
    /\ Len(commits) = 1
    /\ \E u \in Updates :
         /\ proc[u].pc = "save_write"
         /\ proc[u].sha = 1
         /\ proc[u].bookmark.id # JSONparse(commits[1]).id
    /\ proc[FirstSweeper].pc = "delete_ok"

\* C6 as stated: when handleUpdate returns after saveBookmark failed, the
\* queue holds under retry:<id> the entry with that bookmark and attempts = 1,
\* and the outcome is Queued.
C6_AtReturn(u) ==
    LET key == RetryKey(proc[u].bookmark.id) IN
    /\ proc'[u].outcome = "Queued"
    /\ key \in DOMAIN queue'
    /\ JSONparse(queue'[key]).attempts = 1
    /\ JSONparse(queue'[key]).bookmark = StripUndefined(proc[u].bookmark)

C6_EntryHeldAtReturn ==
    [][\A u \in Updates :
          (proc[u].error # "" /\ proc[u].pc # "done" /\ proc'[u].pc = "done")
              => C6_AtReturn(u)]_vars

Untouched(key) ==
    swept[key].puts = 0 /\ swept[key].resolved = 0 /\ swept[key].dropped = 0

\* C6 amended: after saveBookmark failed, handleUpdate puts under retry:<id>
\* the entry with that bookmark and attempts = 1 before it replies, and it
\* returns with the outcome Queued; the entry is in the queue as put from the
\* put on (at the return too) until a sweep has processed the key.
C6_QueuedWithOneAttempt ==
    \A u \in Updates :
        LET key == RetryKey(proc[u].bookmark.id) IN
        /\ (proc[u].error # "" /\ proc[u].pc = "done") => proc[u].outcome = "Queued"
        /\ (proc[u].error # "" /\ proc[u].pc \in {"reply_queued", "done"}
              /\ Untouched(key)) =>
              /\ key \in DOMAIN queue
              /\ JSONparse(queue[key]).attempts = 1
              /\ JSONparse(queue[key]).bookmark = StripUndefined(proc[u].bookmark)
              /\ SameFields(JSONparse(queue[key]).bookmark, proc[u].bookmark)

C6_Witness ==
    \E u \in Updates :
        /\ proc[u].pc = "done"
        /\ proc[u].outcome = "Queued"
        /\ proc[u].error # ""
        /\ RetryKey(proc[u].bookmark.id) \in DOMAIN queue
        /\ JSONparse(queue[RetryKey(proc[u].bookmark.id)]).attempts = 1

\* C7: with one sweep at a time, the attempts stored for an entry are 1 plus
\* the failed sweeps that rewrote it, at most MAX_ATTEMPTS; the sweep that
\* fails with attempts = MAX_ATTEMPTS deletes the key and stores nothing, and
\* the sweeps call saveBookmark at most MAX_ATTEMPTS times for the entry.
C7_AttemptsThenDrop ==
    \A k \in Keys :
        /\ swept[k].appends <= MAX_ATTEMPTS
        /\ swept[k].puts <= MAX_ATTEMPTS - 1
        /\ k \in DOMAIN queue =>
              /\ JSONparse(queue[k]).attempts = 1 + swept[k].puts
              /\ JSONparse(queue[k]).attempts <= MAX_ATTEMPTS
              /\ swept[k].dropped = 0
        /\ swept[k].dropped > 0 =>
              /\ swept[k].dropped = 1
              /\ swept[k].puts = MAX_ATTEMPTS - 1
              /\ swept[k].appends = MAX_ATTEMPTS
              /\ k \notin DOMAIN queue

\* the entry was dropped by the third sweep and a fourth sweep has run
C7_Witness ==
    \E k \in Keys :
        /\ swept[k].dropped = 1
        /\ swept[k].appends = MAX_ATTEMPTS
        /\ ticks = MAX_ATTEMPTS + 1
        /\ proc[FirstSweeper].pc = "done"

\* C8: an error while one listed key is processed never ends the sweep: the
\* loop goes on to read the next listed key, it ends only after the last one,
\* an entry that is read has its append attempted, and a successful append is
\* followed by the delete of its key.
C8_Step(s) ==
    (proc[s].pc \in LoopPcs /\ proc'[s] # proc[s]) =>
        /\ proc'[s].pc # "threw"
        /\ proc'[s].pc = "done" => Len(proc[s].keys) = 1
        /\ proc'[s].pc \in LoopPcs =>
              /\ proc'[s].keys \in {proc[s].keys, Tail(proc[s].keys)}
              /\ proc'[s].keys = Tail(proc[s].keys) => proc'[s].pc = "get"
              /\ proc'[s].keys = proc[s].keys => proc[s].pc \in {"get", "save_read", "save_write"}
        /\ (proc[s].pc = "get" /\ proc'[s].keys = proc[s].keys)
              => proc'[s].pc = "save_read"
        /\ (proc[s].pc = "save_write" /\ content' # content)
              => proc'[s].pc = "delete_ok"

C9_Step(s) ==
    (proc[s].pc = "delete_ok" /\ proc'[s] # proc[s]) =>
        /\ InLog(proc[s].bookmark)
        /\ queue' = KVDelete(queue, RetryKey(proc[s].bookmark.id))
        /\ RetryKey(proc[s].bookmark.id) = Head(proc[s].keys)

C10_ReplayedUnmodified ==
    /\ \A s \in Sweepers :
          /\ proc[s].pc # "fetch"
          /\ proc[s].pc \in {"save_read", "save_write"} =>
                LET b == proc[s].bookmark
                    k == Head(proc[s].keys) IN
                /\ k = RetryKey(b.id)
                /\ SameFields(b, Built(b.id))
                /\ k \in DOMAIN queue => SameFields(b, JSONparse(queue[k]).bookmark)
    /\ \A i \in 1..Len(commits) :
          commits[i] = JSONstringify(Built(JSONparse(commits[i]).id))

\* a sweep is writing a bookmark with a title and no description, taken from
\* an entry that an earlier sweep rewrote
C10_Witness ==
    /\ proc[FirstSweeper].pc = "save_write"
    /\ proc[FirstSweeper].retryData.attempts = 2
    /\ Get(proc[FirstSweeper].bookmark, "title") = "T"
    /\ Get(proc[FirstSweeper].bookmark, "description") = Undefined
    /\ "description" \in DOMAIN Built(proc[FirstSweeper].bookmark.id)

\* C11: when metadata resolution failed in handleUpdate, the record that is
\* saved has its url set and extraction_status = partial, and the submission
\* whose save succeeded ends as Saved.
C11_PartialRecordSaved ==
    \A u \in Updates :
        "partial" \in DOMAIN proc[u].metadata =>
            /\ \A i \in 1..Len(content) :
                  IdAt(i) = proc[u].bookmark.id =>
                      /\ Get(JSONparse(content[i]), "url") = proc[u].url
                      /\ Get(JSONparse(content[i]), "extraction_status") = "partial"
            /\ (proc[u].pc = "done" /\ proc[u].error = "") =>
                  proc[u].outcome = "Saved"

\* ------------------------------------------------ claims on fetchMetadata
HttpScheme(url) == URLProtocol(url) \in {"http:", "https:"}
Returned(p) == proc[p].pc = "done"
FailedFetch(p) ==
    \/ proc[p].error \in {"network error", "AbortError", "body error"}
    \/ (proc[p].response # NoResponse /\ ~proc[p].response.ok)

\* C12: for a URL with an http or https scheme fetchMetadata never throws;
\* after a network error, an abort by the timer or a response that is not ok it
\* has returned a result with partial = true, a url, and no title, description
\* or image.
C12_PartialNeverThrows ==
    HttpScheme(proc[Fetcher].url) =>
        /\ proc[Fetcher].pc # "threw"
        /\ FailedFetch(Fetcher) =>
              /\ Returned(Fetcher)
              /\ DOMAIN proc[Fetcher].metadata = {"url", "partial"}
              /\ proc[Fetcher].metadata.partial = TRUE
              /\ proc[Fetcher].metadata.url \in
                    {proc[Fetcher].url, proc[Fetcher].response.url} \ {""}
              /\ \A f \in OptionalFields :
                    Get(proc[Fetcher].metadata, f) = Undefined

\* the timer has aborted a request that was still waiting for its response
C12_Witness ==
    /\ Returned(Fetcher)
    /\ proc[Fetcher].error = "AbortError"
    /\ proc[Fetcher].clock >= TIMEOUT_MS
    /\ proc[Fetcher].metadata = Partial(proc[Fetcher].url)

\* C13: fetchMetadata throws InvalidUrlError exactly when the URL does not
\* parse or its protocol is neither http: nor https:, and then no request has
\* been sent (and no timer set); for every other URL one request is sent.
C13_InvalidUrlExactly ==
    proc[Fetcher].pc # "validate" =>
        LET invalid == \/ URLProtocol(proc[Fetcher].url) = InvalidURL
                       \/ URLProtocol(proc[Fetcher].url) \notin {"http:", "https:"}
            threw == proc[Fetcher].pc = "threw" IN
        /\ threw <=> invalid
        /\ threw => /\ proc[Fetcher].error = "InvalidUrlError"
                    /\ proc[Fetcher].requests = 0
                    /\ proc[Fetcher].timer = "unset"
        /\ ~threw => proc[Fetcher].requests = 1

\* a URL that parses, with another scheme, has been refused
C13_Witness ==
    /\ proc[Fetcher].pc = "threw"
    /\ URLProtocol(proc[Fetcher].url) = "ftp:"
    /\ proc[Fetcher].requests = 0

\* the sources of a field in a page, in the order they are tried
Sources(page, f) ==
    CASE f = "title" -> <<page.ogTitle, page.twTitle, page.title>>
      [] f = "description" ->
            <<page.ogDescription, page.twDescription, page.description>>
      [] f = "image" -> <<page.ogImage, page.twImage>>
NonEmpty(value) == value # Undefined /\ value # ""

\* C25: for title, description and image fetchMetadata returns the first
\* non-empty value among the field's sources in the order og:, twitter:,
\* generic tag, and leaves the field undefined only when all of them are empty.
C25_FirstNonEmptySource ==
    (Returned(Fetcher) /\ ~FailedFetch(Fetcher) /\ proc[Fetcher].pc # "threw") =>
        /\ proc[Fetcher].page \in Pages
        /\ \A f \in OptionalFields :
              LET src == Sources(proc[Fetcher].page, f)
                  got == proc[Fetcher].metadata[f] IN
              /\ (got = Undefined) <=> (\A i \in 1..Len(src) : ~NonEmpty(src[i]))
              /\ got # Undefined =>
                    \E i \in 1..Len(src) :
                        /\ got = src[i]
                        /\ NonEmpty(src[i])
                        /\ \A j \in 1..(i - 1) : ~NonEmpty(src[j])

\* an empty og:title and a missing og:description gave way to the twitter:
\* values, and no image was found
C25_Witness ==
    /\ Returned(Fetcher)
    /\ proc[Fetcher].page \in Pages
    /\ proc[Fetcher].page.ogTitle = ""
    /\ proc[Fetcher].metadata.title = "S"
    /\ proc[Fetcher].page.ogDescription = Undefined
    /\ proc[Fetcher].metadata.description = "S"
    /\ proc[Fetcher].page.ogImage = ""
    /\ proc[Fetcher].metadata.image = Undefined

\* C15: while fetchMetadata waits for the response or reads the body, a call
\* that has run for TIMEOUT_MS has its timer in force or its request aborted.
C15_TimeoutBoundsFetchAndParse ==
    (InFetch(Fetcher) /\ proc[Fetcher].clock >= TIMEOUT_MS) =>
        (proc[Fetcher].timer = "armed" \/ proc[Fetcher].aborted)

\* ------------------------------------------ claims on a whole invocation
Ended(p) == proc[p].pc \in {"idle", "done", "threw"}
NoUrlText(text) ==
    /\ ~IsCommand(text)
    /\ \A i \in 1..Len(text) : text[i] \notin UrlWords
IgnoredWith(text) ==
    [Fresh EXCEPT !.pc = "done", !.outcome = "Ignored", !.text = text,
                  !.token = WEBHOOK_SECRET]

\* C14: a handleUpdate call whose text holds no http/https URL and is not a
\* command ends as Ignored in its first step, without a fetch, a store read or
\* write, a queue operation or a reply, and leaves the log and the queue as
\* they are.
C14_Step(u) ==
    (proc[u].pc = "idle" /\ proc'[u].pc # "idle" /\ NoUrlText(proc'[u].text)) =>
        /\ proc'[u] = IgnoredWith(proc'[u].text)
        /\ UNCHANGED <<content, sha, queue, commits, nextId>>

C14_IgnoredNoEffects ==
    /\ [][\A u \in Updates : C14_Step(u)]_vars
    /\ [](\A u \in Updates :
            (proc[u].pc # "idle" /\ NoUrlText(proc[u].text)) =>
                proc[u] = IgnoredWith(proc[u].text))

\* a text with an ftp URL only was ignored while the other submission was
\* committed
C14_Witness ==
    \E u \in Updates :
        /\ proc[u].outcome = "Ignored"
        /\ proc[u].text = <<"ftp://d">>
        /\ Len(commits) = 1
        /\ queue = <<>>

\* C16: an invocation that has started ends, also when a call of the store,
\* the retry queue or the reply channel never responds.
C16_EveryCallBounded ==
    \A p \in Updates \cup {FirstSweeper} :
        [](proc[p].pc # "idle" => <>Ended(p))

\* C17: no invocation ends with an exception, and a handleUpdate call for a
\* message that is not a command ends as Saved, Queued or Ignored.
C17_NoUncaughtException ==
    /\ \A p \in Updates \cup Sweepers : proc[p].pc # "threw"
    /\ \A u \in Updates :
          (proc[u].pc = "done" /\ ~IsCommand(proc[u].text)) =>
              proc[u].outcome \in {"Saved", "Queued", "Ignored"}

\* C18: whenever no submission and no sweep is in progress, no bookmark id is
\* both in the log and in an entry of the retry queue.
C18_QueuedOnlyIfNotDurable ==
    (\A p \in Updates \cup Sweepers : Ended(p)) =>
        \A k \in DOMAIN queue :
            \A i \in 1..Len(content) : RetryKey(IdAt(i)) # k

\* C19: a handleUpdate call for a text with a valid http/https URL creates one
\* bookmark, once, under an id no other call has used, and enters saveBookmark
\* once, with that bookmark, which stays as created.
C19_Step(u) ==
    /\ proc'[u].bookmark # proc[u].bookmark =>
          /\ proc[u].pc = "fetch"
          /\ proc[u].bookmark = NoBookmark
          /\ nextId' = nextId + 1
          /\ proc'[u].bookmark.id = nextId'
          /\ proc'[u].bookmark.url = extractUrl(proc[u].text)
          /\ \A v \in Updates \ {u} : proc[v].bookmark.id # proc'[u].bookmark.id
          /\ proc'[u].pc = "save_read"
    /\ (proc'[u].pc = "save_read" /\ ~InSave(u)) =>
          /\ proc[u].pc = "fetch"
          /\ proc'[u].bookmark # proc[u].bookmark

C19_OneRecordOneSave ==
    /\ [][\A u \in Updates : C19_Step(u)]_vars
    /\ [](\A u, v \in Updates :
            (u # v /\ proc[u].bookmark # NoBookmark) =>
                proc[u].bookmark.id # proc[v].bookmark.id)
    /\ [](\A u \in Updates :
            (ValidUrl(extractUrl(proc[u].text)) /\ ~IsCommand(proc[u].text)
                /\ proc[u].pc \notin {"idle", "fetch"})
            <=> proc[u].bookmark # NoBookmark)
    /\ [](nextId = Cardinality({u \in Updates : proc[u].bookmark # NoBookmark}))

\* two submissions have ended, each with its own record in the log
C19_Witness ==
    /\ \A u \in Updates : proc[u].pc = "done" /\ InLog(proc[u].bookmark)
    /\ proc[<<"update", 1>>].bookmark.id # proc[<<"update", 2>>].bookmark.id
    /\ nextId = 2
    /\ Len(content) = Len(base) + 2

\* C20: once handleUpdate has ended for a message with a URL, the bookmark it
\* created is in the log, or in the retry queue, or its entry was dropped by a
\* sweep.
C20_NoSilentLoss ==
    \A u \in Updates :
        (proc[u].pc \in {"done", "threw"} /\ proc[u].bookmark # NoBookmark) =>
            \/ InLog(proc[u].bookmark)
            \/ RetryKey(proc[u].bookmark.id) \in DOMAIN queue
            \/ swept[RetryKey(proc[u].bookmark.id)].dropped > 0

\* ------------------------------------------------- claims on the blob text
\* C21: the text saveBookmark writes is one serialized record per line, with
\* no empty line, and ends with exactly one newline; getBookmarkFile applied to
\* it gives the same records in the same order.
C21_WriteThenRead ==
    LET loc == proc[Formatter]
        text == loc.newContent
        n == Len(loc.bookmarks) IN
    /\ loc.pc \in {"decode", "done"} =>
          /\ Len(text) = 2 * n
          /\ \A i \in 1..n :
                /\ text[2 * i - 1] = JSONstringify(loc.bookmarks[i])
                /\ text[2 * i] = NL
          /\ \A i \in 1..Len(text) - 1 : ~(text[i] = NL /\ text[i + 1] = NL)
          /\ text[1] # NL
          /\ Len(Split(text)) = n + 1
    /\ loc.pc = "done" =>
          /\ Len(loc.parsed) = n
          /\ \A i \in 1..n :
                /\ SameFields(loc.parsed[i], loc.bookmarks[i])
                /\ loc.parsed[i] = StripUndefined(loc.bookmarks[i])
          /\ NewContentText(loc.parsed) = text

\* three records, one of them with an undefined title, went through
C21_Witness ==
    /\ proc[Formatter].pc = "done"
    /\ Len(proc[Formatter].parsed) = MaxRecords
    /\ \E i \in 1..MaxRecords :
          /\ proc[Formatter].bookmarks[i].title = Undefined
          /\ "title" \notin DOMAIN proc[Formatter].parsed[i]

\* C22: when the blob does not exist getBookmarkFile returns no records and
\* a null token instead of failing, and the saveBookmark that follows sends
\* the one new record with no expected revision; the blob it creates holds
\* exactly that record.
C22_MissingBlob ==
    /\ \A p \in Savers :
          /\ (proc[p].pc = "save_read" /\ sha = NoSha) => ENABLED SaveRead(p)
          /\ (proc[p].pc = "save_write" /\ proc[p].seen[1].sha = NoSha) =>
                /\ proc[p].seen[1].lines = <<>>
                /\ proc[p].sha = NoSha
                /\ proc[p].bookmarks = <<proc[p].bookmark>>
                /\ NewContent(proc[p].bookmarks) = <<Line(p)>>
          /\ (proc[p].pc = "save_write" /\ proc[p].sha = NoSha) =>
                proc[p].seen[1].sha = NoSha
    /\ (base = <<>> /\ sha # NoSha) =>
          /\ Len(commits) >= 1
          /\ SubSeq(content, 1, 1) = <<commits[1]>>
    /\ (base = <<>> /\ Len(commits) = 1) => content = <<commits[1]>>

\* the first call has created the blob with its record alone
C22_Witness ==
    /\ base = <<>>
    /\ Len(content) = 1
    /\ \E p \in Savers :
          /\ proc[p].pc = "done"
          /\ proc[p].reads = 1
          /\ content = <<Line(p)>>

\* ------------------------------------------------ claims on the webhook
RejectedWith(token) ==
    [Fresh EXCEPT !.pc = "done", !.outcome = "401", !.token = token]

\* C23: a request whose secret-token header is missing or differs from the
\* configured secret is answered 401 in its first step and handleUpdate is not
\* run for it: no fetch, no store call, no queue operation, no reply, and the
\* log and the queue stay as they are; every other request is let through.
C23_Step(u) ==
    (proc[u].pc = "idle" /\ proc'[u].pc # "idle") =>
        IF proc'[u].token # WEBHOOK_SECRET
        THEN /\ proc'[u] = RejectedWith(proc'[u].token)
             /\ UNCHANGED <<content, sha, queue, commits, nextId>>
        ELSE proc'[u].outcome # "401"

C23_UnauthorizedNoEffects ==
    /\ [][\A u \in Updates : C23_Step(u)]_vars
    /\ [](\A u \in Updates :
            /\ proc[u].pc # "idle" => proc[u].token \in Tokens
            /\ (proc[u].pc # "idle" /\ proc[u].token # WEBHOOK_SECRET) =>
                  proc[u] = RejectedWith(proc[u].token)
            /\ proc[u].outcome = "401" => proc[u].token # WEBHOOK_SECRET)

\* a request without the header was refused while the other one was saved
C23_Witness ==
    \E u \in Updates :
        /\ proc[u].outcome = "401"
        /\ proc[u].token = NullToken
        /\ Len(commits) = 1
        /\ \E v \in Updates : proc[v].outcome = "Saved"

\* ------------------------------------------------- claims on extractUrl
UrlAt(words, i) ==
    /\ i \in 1..Len(words)
    /\ words[i] \in UrlWords
    /\ \A j \in 1..(i - 1) : words[j] \notin UrlWords

\* C24: extractUrl returns the first http/https URL of the text, in text
\* order, and null when the text is empty, null, undefined or holds none; the
\* record handleUpdate builds and saves has that first URL, and no record has
\* a later URL of the message.
C24_FirstUrlOnly ==
    /\ proc[Extractor].pc = "done" =>
          LET arg == proc[Extractor].arg IN
          IF arg.type # "string" THEN proc[Extractor].url = NoUrl
          ELSE \/ \E i \in 1..Len(arg.words) :
                     UrlAt(arg.words, i) /\ proc[Extractor].url = arg.words[i]
               \/ /\ \A i \in 1..Len(arg.words) : arg.words[i] \notin UrlWords
                  /\ proc[Extractor].url = NoUrl
    /\ LET u == <<"update", 1>> IN
       /\ proc[u].bookmark # NoBookmark =>
             \E i \in 1..Len(proc[u].text) :
                 /\ UrlAt(proc[u].text, i)
                 /\ proc[u].bookmark.url = proc[u].text[i]
                 /\ \A k \in 1..Len(commits) :
                       JSONparse(commits[k]).url = proc[u].text[i]
       /\ Len(commits) <= 1

\* the text with two URLs was saved under the first one, and extractUrl was
\* given two URLs after another word
C24_Witness ==
    /\ proc[Extractor].pc = "done"
    /\ proc[Extractor].arg = Str(<<"hello", "http://b", "https://a">>)
    /\ proc[Extractor].url = "http://b"
    /\ proc[<<"update", 1>>].outcome = "Saved"
    /\ proc[<<"update", 1>>].text = <<"hello", "https://a", "http://b">>
    /\ JSONparse(content[Len(content)]).url = "https://a"

\* ------------------------------------------- claims on the retry entries
Attempts(k) == JSONparse(queue[k]).attempts
Processing(s, k) == proc[s].pc \in LoopPcs \ {"get"} /\ Head(proc[s].keys) = k

\* C26: an entry enqueued with attempts = 1 is processed by at most
\* MAX_ATTEMPTS sweeps, and once the last of them is through with it the key
\* is out of the queue.
C26_RemovedWithinThreeSweeps ==
    \A k \in Keys :
        /\ swept[k].appends <= MAX_ATTEMPTS
        /\ (swept[k].appends = MAX_ATTEMPTS
              /\ \A s \in Sweepers : ~Processing(s, k)) => k \notin DOMAIN queue

\* C27: every entry in the queue has attempts in 1..MAX_ATTEMPTS; an entry is
\* stored by handleUpdate with attempts = 1, or by a sweep with the attempts
\* it read plus one, which it does only when it read less than MAX_ATTEMPTS.
C27_Step ==
    \A k \in Keys :
        (k \in DOMAIN queue' /\ (k \notin DOMAIN queue \/ queue'[k] # queue[k])) =>
            \/ \E u \in Updates :
                  /\ proc[u].pc = "queue_put"
                  /\ RetryKey(proc[u].bookmark.id) = k
                  /\ JSONparse(queue'[k]).attempts = 1
            \/ \E s \in Sweepers :
                  /\ proc[s].pc = "put"
                  /\ Head(proc[s].keys) = k
                  /\ proc[s].retryData.attempts < MAX_ATTEMPTS
                  /\ JSONparse(queue'[k]).attempts = proc[s].retryData.attempts + 1

C27_AttemptsInRange ==
    /\ [](\A k \in DOMAIN queue : Attempts(k) \in 1..MAX_ATTEMPTS)
    /\ [][C27_Step]_vars

\* the entry stands at MAX_ATTEMPTS while an overlapping sweep that read it
\* at attempts = 1 is about to write it back
C27_Witness ==
    \E k \in DOMAIN queue :
        /\ Attempts(k) = MAX_ATTEMPTS
        /\ \E s \in Sweepers :
              /\ proc[s].pc = "put"
              /\ Head(proc[s].keys) = k
              /\ proc[s].retryData.attempts = 1

\* C28: once a key has been deleted because the append of its bookmark
\* succeeded, no later put creates the key again.
C28_ResolvedStaysDeleted ==
    [][\A k \in Keys :
          (swept[k].resolved > 0 /\ k \notin DOMAIN queue) =>
              k \notin DOMAIN queue']_vars

\* C29: when handleUpdate goes on to send the Saved reply the record is in
\* the log, and stays there; when it goes on to send the Queued reply the
\* entry with its bookmark is in the queue.
C29_Step(u) ==
    /\ (proc'[u].pc = "reply_saved" /\ proc[u].pc # "reply_saved") =>
          \E i \in 1..Len(content') :
              content'[i] = JSONstringify(proc'[u].bookmark)
    /\ (proc'[u].pc = "reply_queued" /\ proc[u].pc # "reply_queued") =>
          /\ RetryKey(proc'[u].bookmark.id) \in DOMAIN queue'
          /\ JSONparse(queue'[RetryKey(proc'[u].bookmark.id)]).bookmark
                = StripUndefined(proc'[u].bookmark)

C29_ReplyAfterEffect ==
    /\ [][\A u \in Updates : C29_Step(u)]_vars
    /\ [](\A u \in Updates :
            (proc[u].pc = "reply_saved" \/ proc[u].outcome = "Saved") =>
                InLog(proc[u].bookmark))

\* the Queued reply of a bookmark that is not in the log is on its way, and
\* the other submission has been answered Saved
C29_Witness ==
    \E u, v \in Updates :
        /\ proc[u].pc = "reply_queued"
        /\ RetryKey(proc[u].bookmark.id) \in DOMAIN queue
        /\ ~InLog(proc[u].bookmark)
        /\ proc[v].outcome = "Saved"

\* C30: the put of a failed sweep attempt writes, under the key it read, the
\* entry it read with attempts + 1, lastError and lastAttempt; every other
\* field (bookmark, createdAt) is as read and as stored before, and every
\* other key of the queue is left as it is.
C30_Step(s) ==
    (proc[s].pc = "put" /\ proc'[s] # proc[s]) =>
        LET key == Head(proc[s].keys)
            old == proc[s].retryData
            new == JSONparse(queue'[key])
            changed == {"attempts", "lastError", "lastAttempt"} IN
        /\ key \in DOMAIN queue /\ key \in DOMAIN queue'
        /\ old = JSONparse(queue[key])
        /\ old.attempts < MAX_ATTEMPTS
        /\ new.attempts = old.attempts + 1
        /\ new.lastError = proc[s].error
        /\ new.lastAttempt = Later
        /\ DOMAIN new = DOMAIN old \cup changed
        /\ \A f \in DOMAIN old \ changed : new[f] = old[f]
        /\ new.bookmark = old.bookmark /\ new.createdAt = old.createdAt
        /\ DOMAIN queue' = DOMAIN queue
        /\ \A k \in DOMAIN queue \ {key} : queue'[k] = queue[k]

C30_OnlyAttemptsAndError == [][\A s \in Sweepers : C30_Step(s)]_vars

\* one entry was rewritten twice next to an entry that was left alone
C30_Witness ==
    /\ Cardinality(DOMAIN queue) = 2
    /\ \E k, l \in DOMAIN queue :
          /\ Attempts(k) = MAX_ATTEMPTS
          /\ JSONparse(queue[k]).lastAttempt = Later
          /\ JSONparse(queue[k]).createdAt = Now
          /\ Attempts(l) = 1
    /\ proc[FirstSweeper].pc = "done"

\* ------------------------------------------------ claims on the failures
\* the operations of a call that has ended with a store error
Errored(p) == proc[p].pc = "failed" /\ proc[p].error = "request failed"

\* what one call has done: every read after the first follows a conflict, and
\* a call that ended with a store error stopped at the operation that failed
C31_Counts(p) ==
    /\ proc[p].reads <= proc[p].conflicts + 1
    /\ proc[p].conflicts = proc[p].attempt
    /\ Errored(p) =>
          /\ proc[p].reads = proc[p].conflicts + 1
          /\ proc[p].writes \in {proc[p].conflicts, proc[p].conflicts + 1}

\* a read or a write that fails with something other than a conflict ends the
\* call in that step, with that error and the blob as it was; the call does
\* nothing afterwards
C31_Step(p) ==
    /\ (InSave(p) /\ proc'[p].reads + proc'[p].writes >
                        proc[p].reads + proc[p].writes
                  /\ proc'[p].conflicts = proc[p].conflicts
                  /\ commits' = commits
                  /\ proc'[p].pc # "save_write")
          => /\ proc'[p].pc = "failed"
             /\ proc'[p].error = "request failed"
             /\ proc'[p].attempt = proc[p].attempt
             /\ content' = content /\ sha' = sha
    /\ Errored(p) => proc'[p] = proc[p]

\* C31: saveBookmark retries only on a conflict (409): any other error from
\* the store read or the conditional write makes the call fail at once with
\* that error, the failing operation attempted once, and the call issues no
\* other read or write.
C31_RetryOnlyOnConflict ==
    /\ [](\A p \in Savers : C31_Counts(p))
    /\ [][\A p \in Savers : C31_Step(p)]_vars

\* a call whose write was rejected with a conflict, and whose next read or
\* write failed with another error
C31_Witness ==
    \E p \in Savers :
        /\ Errored(p)
        /\ proc[p].conflicts >= 1
        /\ proc[p].writes = proc[p].conflicts + 1

\* --------------------------------------------- claims on one sweep's loop
\* the sweep is at the get of a listed key that has no value any more
AtMissingKey(s) ==
    proc[s].pc = "get" /\ Head(proc[s].keys) \notin DOMAIN queue

C32_Step(s) ==
    (AtMissingKey(s) /\ proc'[s] # proc[s]) =>
        /\ queue' = queue /\ content' = content /\ sha' = sha
        /\ commits' = commits /\ swept' = swept
        /\ IF Len(proc[s].keys) > 1
           THEN /\ proc'[s].pc = "get"
                /\ proc'[s].keys = Tail(proc[s].keys)
           ELSE proc'[s].pc = "done"

\* C32: when a listed key has no value at the sweep's get (a concurrent sweep
\* deleted it after the listing), the sweep issues no append, no put and no
\* delete for the key and goes on with the next listed key.
C32_MissingKeySkipped == [][\A s \in Sweepers : C32_Step(s)]_vars

\* two overlapping sweeps listed the same two keys and both are past the first
\* one, which was appended once and is gone: one of them found it missing and
\* is at the get of the second key
C32_Witness ==
    \E s, t \in Sweepers :
        /\ s # t
        /\ Len(proc[s].listed) = 2 /\ proc[t].listed = proc[s].listed
        /\ proc[s].pc = "get" /\ proc[s].keys = Tail(proc[s].listed)
        /\ proc[t].pc \in LoopPcs /\ proc[t].keys = Tail(proc[t].listed)
        /\ proc[s].listed[1] \notin DOMAIN queue
        /\ swept[proc[s].listed[1]].appends = 1
        /\ swept[proc[s].listed[1]].resolved = 1

\* the keys a sweep still has to take are the end of its listing
IsSuffix(keys, listed) ==
    /\ Len(keys) <= Len(listed)
    /\ keys = SubSeq(listed, Len(listed) - Len(keys) + 1, Len(listed))

\* what a sweep holds: a listing of retry: keys without repetition, of which
\* it takes each key in turn
C33_Listing(s) ==
    /\ \A i \in 1..Len(proc[s].listed) : proc[s].listed[i][1] = "retry:"
    /\ \A i, j \in 1..Len(proc[s].listed) :
          i # j => proc[s].listed[i] # proc[s].listed[j]
    /\ proc[s].pc \in LoopPcs =>
          proc[s].keys # <<>> /\ IsSuffix(proc[s].keys, proc[s].listed)

C33_Step(s) ==
    \* saveBookmark is entered for the listed key the sweep has just read
    /\ (proc[s].pc # proc'[s].pc /\ proc'[s].pc = "save_read"
            /\ proc[s].pc # "save_write") =>
          /\ proc[s].pc = "get"
          /\ proc'[s].keys = proc[s].keys
          /\ \E i \in 1..Len(proc[s].listed) :
                proc[s].listed[i] = Head(proc[s].keys)
          /\ Head(proc[s].keys) \in DOMAIN queue
          /\ proc'[s].bookmark = JSONparse(queue[Head(proc[s].keys)]).bookmark
          /\ swept'[Head(proc[s].keys)].appends
                = swept[Head(proc[s].keys)].appends + 1
    \* a key the sweep is through with is not taken again
    /\ (proc[s].pc \in LoopPcs /\ proc'[s].pc = "get"
            /\ proc'[s] # proc[s]) =>
          proc'[s].keys = Tail(proc[s].keys)
    \* an empty listing ends the sweep
    /\ (proc[s].pc = "list" /\ KVList(queue, "retry:") = <<>>
            /\ proc'[s] # proc[s]) =>
          /\ proc'[s].pc = "done"
          /\ UNCHANGED <<content, sha, queue, commits, swept>>
    \* an ended sweep does nothing until the next trigger
    /\ (proc[s].pc = "done" /\ proc'[s] # proc[s]) =>
          /\ proc'[s].pc = "list"
          /\ UNCHANGED <<content, sha, queue, commits, swept>>

\* C33: a sweep reads and appends only keys its listing under retry: returned,
\* it calls saveBookmark at most once for each of them (so a key's bookmark
\* has been given to saveBookmark at most once per sweep started), and after
\* an empty listing it issues no queue get and no store operation.
C33_OnlyListedKeysOnce ==
    /\ [](\A s \in Sweepers : C33_Listing(s))
    /\ [](\A k \in Keys : swept[k].appends <= ticks)
    /\ [][\A s \in Sweepers : C33_Step(s)]_vars

\* a sweep that listed two keys has called saveBookmark for both, while
\* another sweep has ended on an empty listing
C33_Witness ==
    \E s, t \in Sweepers :
        /\ Len(proc[s].listed) = 2
        /\ proc[s].pc = "save_write" /\ Len(proc[s].keys) = 1
        /\ \A k \in Keys : swept[k].appends >= 1
        /\ proc[t].pc = "done"
        /\ ticks >= 2

\* ------------------------------------- claims on the rejected submissions
\* handleUpdate has a URL that fetchMetadata refuses
AtInvalidUrl(u) == proc[u].pc = "fetch" /\ ~ValidUrl(proc[u].url)

\* handleUpdate ended with the InvalidUrlError of fetchMetadata
Rejected(u) == proc[u].pc = "threw" /\ proc[u].error = "InvalidUrlError"

C34_Step(u) ==
    /\ (AtInvalidUrl(u) /\ proc'[u] # proc[u]) =>
          /\ Rejected(u)'
          /\ proc'[u].bookmark = NoBookmark
          /\ UNCHANGED <<content, sha, queue, commits, nextId>>
    /\ Rejected(u) => proc'[u] = proc[u]

\* C34: when fetchMetadata throws InvalidUrlError in handleUpdate, the call
\* ends there: no record has been built, the store is neither read nor
\* written, nothing is put in the retry queue, and no URL that fetchMetadata
\* refuses is ever in the log or in an entry a sweep would retry.
C34_InvalidUrlRejected ==
    /\ [][\A u \in Updates : C34_Step(u)]_vars
    /\ [](\A u \in Updates :
            Rejected(u) => /\ proc[u].bookmark = NoBookmark
                           /\ proc[u].reads = 0 /\ proc[u].writes = 0)
    /\ [](\A k \in DOMAIN queue : ValidUrl(JSONparse(queue[k]).bookmark.url))
    /\ [](\A i \in Len(base) + 1..Len(content) :
            ValidUrl(JSONparse(content[i]).url))

\* the submission of 'http://:' was rejected; the other submission is queued
\* and a sweep has run since
C34_Witness ==
    \E u \in Updates :
        /\ Rejected(u)
        /\ proc[u].text = <<"http://:">>
        /\ \E k \in Keys : swept[k].appends >= 1
        /\ \A p \in Sweepers : ~Running(p)

\* the local state of a handleUpdate that took the text for a command
CommandLocals(u) ==
    /\ proc[u].url = "" /\ proc[u].bookmark = NoBookmark
    /\ proc[u].metadata = NoMetadata
    /\ proc[u].reads = 0 /\ proc[u].writes = 0

C35_Step(u) ==
    /\ (proc[u].pc = "idle" /\ proc'[u].pc # "idle" /\ IsCommand(proc'[u].text)) =>
          /\ proc'[u].pc = "reply_command"
          /\ UNCHANGED <<content, sha, queue, commits, nextId>>
    /\ (proc[u].pc = "reply_command" /\ proc'[u] # proc[u]) =>
          /\ \/ proc'[u].pc = "done" /\ proc'[u].outcome = "Command"
             \/ proc'[u].pc = "threw"
          /\ UNCHANGED <<content, sha, queue, commits, nextId>>
    /\ (IsCommand(proc[u].text) /\ proc[u].pc \in {"done", "threw"}) =>
          proc'[u] = proc[u]

\* C35: a message whose text starts with '/' is answered with one reply and
\* nothing else: handleUpdate fetches no metadata, builds no record, does not
\* touch the store or the retry queue, and ends after the reply, also when
\* the text holds a URL.
C35_CommandOnly ==
    /\ [][\A u \in Updates : C35_Step(u)]_vars
    /\ [](\A u \in Updates :
            (proc[u].pc # "idle" /\ IsCommand(proc[u].text)) =>
                /\ proc[u].pc \in {"reply_command", "done", "threw"}
                /\ CommandLocals(u))

\* '/start https://a' was answered as a command; no record was built and the
\* log and the queue are as they were
C35_Witness ==
    \E u \in Updates :
        /\ proc[u].text = <<"/start", "https://a">>
        /\ extractUrl(proc[u].text) # NoUrl
        /\ proc[u].pc = "done" /\ proc[u].outcome = "Command"
        /\ nextId = 0 /\ content = base /\ queue = <<>>

====
